---- MODULE Spec2Model ----
(***************************************************************************)
(* ViteMap: a bitmap codec working on 256-bit buckets.  The model follows  *)
(* the compression engine byte by byte: vitemap_create, the caller's fill  *)
(* of vm->input, vitemap_compress (one step per bucket),                   *)
(* vitemap_extract_decompressed_sizes, vitemap_decompress (one step per    *)
(* record) and vitemap_delete.  A buffer is the sequence of its bytes: the   *)
(* byte at offset o of buf is buf[o + 1].                                  *)
(*                                                                         *)
(* Spec is the life of one context as the benchmark drives it; SpecDec is  *)
(* the decoder on a file, as the command-line front end drives it;         *)
(* SpecSizes applies the two size computations to arguments from the whole *)
(* uint32_t range; SpecPair runs two contexts side by side; SpecReuse      *)
(* calls vitemap_compress again and again on one context; SpecClassify     *)
(* compresses one bucket of every population count.                        *)
(***************************************************************************)
EXTENDS Integers, Sequences, FiniteSets, TLC

VARIABLES
  pc,             \* which call runs, or which one returned last
  tables,         \* the static tables indices and bit_lookup, shared by all contexts
  other,          \* a second context and the compress call running on it
  upper_size,     \* the argument of vitemap_create
  vm,             \* the Vitemap fields max_size, num_buckets, max_compressed_size, output_size
  input,          \* vm->input
  output,         \* vm->output
  helper_bucket,  \* vm->helper_bucket
  size,           \* the argument of vitemap_compress
  bucket,         \* vitemap_compress: loop counter
  out_off,        \* vitemap_compress: output - vm->output
  result_size,    \* vitemap_compress: result_size
  out_hi,         \* vitemap_compress: the end (exclusive) of the furthest store into vm->output
  ret,            \* what vitemap_compress returned
  allocs,         \* per block of the context: how many times calloc returned it
  frees,          \* per block of the context: how many times free released it
  compressed_data,  \* the buffer handed to the decoder
  compressed_size,  \* vitemap_decompress: size
  capacity,       \* the size of the buffer the caller hands to vitemap_decompress
  arg32,          \* a uint32_t argument taken from the whole 32-bit range
  sizes32,        \* the uint32_t sizes computed from arg32
  data_size,      \* vitemap_extract_decompressed_sizes: *data_size
  buffer_size,    \* vitemap_extract_decompressed_sizes: *buffer_size
  end,            \* vitemap_decompress: end - compressed_data
  pos,            \* vitemap_decompress: offset of compressed_data in the frame
  dec_off,        \* vitemap_decompress: offset of decompressed_data in its buffer
  read_hi,        \* vitemap_decompress: the end (exclusive) of the furthest read of compressed_data
  decompressed    \* the bytes vitemap_decompress has stored

vars == <<pc, tables, other, upper_size, vm, input, output, helper_bucket,
          size, bucket, out_off, result_size, out_hi, ret,
          allocs, frees,
          compressed_data, compressed_size, capacity,
          arg32, sizes32,
          data_size, buffer_size,
          end, pos, dec_off, read_hi, decompressed>>

(***************************************************************************)
(* Program constants.                                                      *)
(***************************************************************************)
BUCKET_SIZE == 256
BUCKET_SIZE_U8 == 32
BUCKET_SIZE_U64 == 4
\* The sizes of a context that is built are naturals: within the bounds below
\* they stay far under 2^31.  They are computed in uint32_t (create_sizes,
\* extract_sizes) and converted.

(***************************************************************************)
(* Bounds of the model.                                                    *)
(***************************************************************************)
MaxBuckets == 2

\* Upper bounds a caller passes to vitemap_create: every bucket boundary up
\* to MaxBuckets buckets, and the sizes one byte short of it.
Residues == {0, BUCKET_SIZE_U8 - 1}
Sizes == {n \in 0..(BUCKET_SIZE_U8 * MaxBuckets) : (n % BUCKET_SIZE_U8) \in Residues}
\* A declared size whose four little-endian bytes are not all alike.
WideSize == 258
\* Declared sizes other than the one the context was created for.
DeclaredSizes == {0, WideSize}

(***************************************************************************)
(* Bytes and buffers.                                                      *)
(***************************************************************************)
Min(a, b) == IF a < b THEN a ELSE b
Max(a, b) == IF a < b THEN b ELSE a
Zeros(n) == [i \in 1..n |-> 0]
At(buf, off) == buf[off + 1]
Bit(b, j) == (b \div (2 ^ j)) % 2
Or8(a, b) ==
  LET o(j) == IF Bit(a, j) = 1 \/ Bit(b, j) = 1 THEN 2 ^ j ELSE 0
  IN o(0) + o(1) + o(2) + o(3) + o(4) + o(5) + o(6) + o(7)

\* A store that leaves set the bits the buffer held.
Store_Or(buf, dst, vec) ==
  [i \in 1..Len(buf) |->
     IF dst < i /\ i <= dst + Len(vec) THEN Or8(buf[i], vec[i - dst]) ELSE buf[i]]
\* The bytes of vec stored at offset dst of buf; bytes that fall outside buf
\* are not kept.
Store(buf, dst, vec) ==
  IF dst >= Len(buf) THEN buf
  ELSE SubSeq(buf, 1, dst)
         \o SubSeq(vec, 1, Min(Len(vec), Len(buf) - dst))
         \o SubSeq(buf, dst + Len(vec) + 1, Len(buf))

\* The n bytes of buf from offset off on.
Slice(buf, off, n) == SubSeq(buf, off + 1, off + n)

\* The store with the most significant byte first.
StoreU32_BigEndian(v) ==
  << (v \div 16777216) % 256, (v \div 65536) % 256, (v \div 256) % 256, v % 256 >>
\* *(uint32_t *)p = v on a little-endian machine.
StoreU32(v) == << v % 256, (v \div 256) % 256, (v \div 65536) % 256, (v \div 16777216) % 256 >>
\* *(uint32_t *)p read back.
LoadU32(buf) == buf[1] + 256 * buf[2] + 65536 * buf[3] + 16777216 * buf[4]

(***************************************************************************)
(* uint32_t over its whole range: the value hi * 2^16 + lo, kept as its    *)
(* two 16-bit halves, with the arithmetic of C reduced modulo 2^32.        *)
(***************************************************************************)
Half == 2 ^ 16
\* The uint32_t that hi * 2^16 + lo is reduced to, for naturals hi and lo.
Wrap32(hi, lo) == [hi |-> (hi + lo \div Half) % Half, lo |-> lo % Half]
\* A natural below 2^31 as a uint32_t, and back.
Nat32(n) == Wrap32(0, n)
Val32(a) == a.hi * Half + a.lo
Add32(a, b) == Wrap32(a.hi + b.hi, a.lo + b.lo)
\* a * k for a small constant k.
Mul32(a, k) == Wrap32(a.hi * k, a.lo * k)
\* a / k and a % k for a constant k that divides 2^16.
Div32(a, k) == Wrap32(0, a.hi * (Half \div k) + a.lo \div k)
Mod32(a, k) == a.lo % k
\* *(uint32_t *)p read back on a little-endian machine.
Load32(buf) == [hi |-> buf[3] + 256 * buf[4], lo |-> buf[1] + 256 * buf[2]]
\* The four bytes of a uint32_t in memory.
Bytes32(a) == << a.lo % 256, a.lo \div 256, a.hi % 256, a.hi \div 256 >>

(***************************************************************************)
(* Tables built by the constructors.                                       *)
(***************************************************************************)
\* init_indices: indices[i] = i, a uint8_t.
init_indices == [i \in 1..BUCKET_SIZE |-> (i - 1) % 256]
\* init_bit_lookup: bit_lookup[i][chunk] = 1ULL << bit, the one bit set in
\* the 32 bytes of entry i given by the byte that holds it and its place
\* in that byte.
init_bit_lookup ==
  [i \in 1..BUCKET_SIZE |->
     [byte |-> ((i - 1) \div 64) * 8 + (((i - 1) % 64) \div 8),
      bit |-> ((i - 1) % 64) % 8]]

\* indices[i].
indices(i) == tables.indices[i + 1]
\* bit_lookup[i]: the byte of the 32 that holds the bit, and the bit within
\* that byte.
LookupByte(i) == tables.bit_lookup[i + 1].byte
\* A table that numbers the bits of a byte from the most significant one.
LookupBit_MsbFirst(i) == 7 - tables.bit_lookup[i + 1].bit
LookupBit(i) == tables.bit_lookup[i + 1].bit

(***************************************************************************)
(* Bit primitives.  A bucket is 32 bytes, read or written as four          *)
(* little-endian 64-bit lanes.                                             *)
(***************************************************************************)
\* A lane whose bytes are taken in big-endian order.
LaneBit_BigEndian(b, lane, k) == Bit(b[8 * lane + (7 - (k \div 8)) + 1], k % 8)
\* Bit k of lane `lane` of the bucket b.
LaneBit(b, lane, k) == Bit(b[8 * lane + (k \div 8) + 1], k % 8)

\* The bit numbers set in a lane, ascending.
LaneSet(b, lane) ==
  SelectSeq(<< 0, 1, 2, 3, 4, 5, 6, 7, 8, 9, 10, 11, 12, 13, 14, 15,
               16, 17, 18, 19, 20, 21, 22, 23, 24, 25, 26, 27, 28, 29, 30, 31,
               32, 33, 34, 35, 36, 37, 38, 39, 40, 41, 42, 43, 44, 45, 46, 47,
               48, 49, 50, 51, 52, 53, 54, 55, 56, 57, 58, 59, 60, 61, 62, 63 >>,
            LAMBDA k : LaneBit(b, lane, k) = 1)

popcnt_u64(b, lane) == Len(LaneSet(b, lane))

popcount_256(b) ==
  LET lo == popcnt_u64(b, 0) + popcnt_u64(b, 2)
      hi == popcnt_u64(b, 1) + popcnt_u64(b, 3)
  IN lo + hi

\* _mm512_maskz_compress_epi8(lane, indices + 64 * lane): the selected index
\* bytes packed at the low end, zero above them; 64 bytes.
maskz_compress(b, lane) ==
  LET sel == LaneSet(b, lane)
  IN [j \in 1..Len(sel) |-> indices(64 * lane + sel[j])] \o Zeros(64 - Len(sel))

RECURSIVE compact_lanes(_, _, _, _)
compact_lanes(b, buf, dst, lane) ==
  IF lane = BUCKET_SIZE_U64 THEN buf
  ELSE compact_lanes(b, Store(buf, dst, maskz_compress(b, lane)),
                     dst + popcnt_u64(b, lane), lane + 1)

\* The buffer buf after extract_and_compact_256(b, buf + dst).
extract_and_compact_256(b, buf, dst) == compact_lanes(b, buf, dst, 0)

\* An inversion that leaves the top bit of every byte alone.
invert_256_Low7(b) == [i \in 1..BUCKET_SIZE_U8 |-> IF b[i] >= 128 THEN 383 - b[i] ELSE 127 - b[i]]
invert_256(b) == [i \in 1..BUCKET_SIZE_U8 |-> 255 - b[i]]

\* The bucket built from the n position bytes at offset off of buf.
expand_and_scatter_256(buf, off, n) ==
  LET P == {buf[off + i] : i \in 1..n}
      o(i, j) == IF \E v \in P : LookupByte(v) = i /\ LookupBit(v) = j
                 THEN 2 ^ j ELSE 0
  IN [i \in 1..BUCKET_SIZE_U8 |->
        o(i - 1, 0) + o(i - 1, 1) + o(i - 1, 2) + o(i - 1, 3)
          + o(i - 1, 4) + o(i - 1, 5) + o(i - 1, 6) + o(i - 1, 7)]

(***************************************************************************)
(* Buckets the caller may put into vm->input: those of the unit tests and  *)
(* their complements, and buckets at the edges of the three densities.     *)
(***************************************************************************)
\* The bucket with byte ov[o] at the offsets o of ov and bg elsewhere.
Chunk(bg, ov) ==
  SubSeq([i \in 1..BUCKET_SIZE_U8 |-> IF (i - 1) \in DOMAIN ov THEN ov[i - 1] ELSE bg],
         1, BUCKET_SIZE_U8)
Palette ==
  << Chunk(0, <<>>),
     Chunk(0, (0 :> 170) @@ (2 :> 16) @@ (3 :> 4) @@ (31 :> 1)),
     Chunk(0, (0 :> 128) @@ (31 :> 1)),
     Chunk(0, (0 :> 255) @@ (1 :> 255) @@ (2 :> 255) @@ (3 :> 24) @@ (4 :> 9)
                @@ (5 :> 4) @@ (6 :> 34)),
     Chunk(0, (15 :> 16)),
     Chunk(128, <<>>),
     Chunk(170, <<>>),
     Chunk(127, <<>>),
     Chunk(255, (0 :> 0) @@ (1 :> 0) @@ (2 :> 0) @@ (3 :> 231) @@ (4 :> 246)
                  @@ (5 :> 251) @@ (6 :> 221)),
     Chunk(255, (0 :> 127) @@ (31 :> 254)),
     Chunk(255, <<>>) >>

(***************************************************************************)
(* The state when no context exists.                                       *)
(***************************************************************************)
NoVm == [max_size |-> 0, num_buckets |-> 0, max_compressed_size |-> 0,
         output_size |-> 0]
\* No second context.
NoOther == [pc |-> "none", num_buckets |-> 0, input |-> <<>>, output |-> <<>>,
            helper_bucket |-> <<>>, size |-> 0, bucket |-> 0, out_off |-> 0,
            result_size |-> 0, ret |-> 0]
\* The four blocks vitemap_create obtains from calloc.
Blocks == {"vm", "input", "output", "helper_bucket"}
NoBlocks == [b \in Blocks |-> 0]
\* One for every block of the set.
Once(held) == [b \in Blocks |-> IF b \in held THEN 1 ELSE 0]

Init ==
  /\ pc = "none"
  /\ tables = [indices |-> init_indices, bit_lookup |-> init_bit_lookup]
  /\ other = NoOther
  /\ upper_size = 0
  /\ vm = NoVm
  /\ input = <<>>
  /\ output = <<>>
  /\ helper_bucket = <<>>
  /\ size = 0
  /\ bucket = 0
  /\ out_off = 0
  /\ result_size = 0
  /\ out_hi = 0
  /\ ret = 0
  /\ allocs = NoBlocks
  /\ frees = NoBlocks
  /\ compressed_data = <<>>
  /\ compressed_size = 0
  /\ capacity = 0
  /\ arg32 = Nat32(0)
  /\ sizes32 = <<>>
  /\ data_size = 0
  /\ buffer_size = 0
  /\ end = 0
  /\ pos = 0
  /\ dec_off = 0
  /\ read_hi = 0
  /\ decompressed = <<>>

locals == <<size, bucket, out_off, result_size, out_hi, ret>>
heap == <<allocs, frees>>
stream == <<compressed_data, compressed_size, capacity>>
wide == <<arg32, sizes32>>
peeked == <<data_size, buffer_size>>
declocals == <<end, pos, dec_off, read_hi, decompressed>>

(***************************************************************************)
(* vitemap_create.  `got` is the set of blocks calloc hands out; a calloc  *)
(* that fails returns NULL.                                                *)
(***************************************************************************)
\* A vitemap_delete that leaves the context itself allocated.
vitemap_delete_frees_KeepsVm(held) == held \ {"vm"}
\* The blocks the four free() calls of vitemap_delete release when the
\* context holds the blocks `held`: free(NULL) releases nothing.
vitemap_delete_frees(held) == held

\* An output buffer without the extra bucket.
OutputBytes_NoSlack(max_compressed_size) == max_compressed_size
\* The number of bytes calloc'ed for vm->output.
OutputBytes(max_compressed_size) == max_compressed_size + BUCKET_SIZE_U8

\* The worst case taken as the 33 bytes of a raw record per bucket.
create_sizes_Tight(U) ==
  LET full_buckets == Div32(U, BUCKET_SIZE_U8)
      remaining_bytes == Mod32(U, BUCKET_SIZE_U8)
      num_buckets == Add32(full_buckets, Nat32(IF remaining_bytes > 0 THEN 1 ELSE 0))
      max_size == Mul32(num_buckets, BUCKET_SIZE_U8)
      max_compressed_size == Add32(Add32(Nat32(4), max_size), num_buckets)
  IN [num_buckets |-> num_buckets, max_size |-> max_size,
      max_compressed_size |-> max_compressed_size,
      output_bytes |-> Add32(max_compressed_size, Nat32(BUCKET_SIZE_U8))]
\* The sizes vitemap_create computes from its argument, in uint32_t, and the
\* number of bytes it asks calloc for vm->output.
create_sizes(U) ==
  LET full_buckets == Div32(U, BUCKET_SIZE_U8)
      remaining_bytes == Mod32(U, BUCKET_SIZE_U8)
      num_buckets == Add32(full_buckets, Nat32(IF remaining_bytes > 0 THEN 1 ELSE 0))
      max_size == Mul32(num_buckets, BUCKET_SIZE_U8)
      max_compressed_size ==
        Add32(Add32(Nat32(4), max_size), Mul32(num_buckets, BUCKET_SIZE_U8))
  IN [num_buckets |-> num_buckets, max_size |-> max_size,
      max_compressed_size |-> max_compressed_size,
      output_bytes |-> Add32(max_compressed_size, Nat32(BUCKET_SIZE_U8))]

\* What the callocs can give: nothing when the first one fails (the others
\* are then not tried), else the context and any of the three buffers.
Outcomes == {{}} \cup {got \in SUBSET Blocks : "vm" \in got}

vitemap_create(U, got) ==
  /\ pc = "none"
  /\ upper_size' = U
  /\ allocs' = Once(got)
  /\ IF got = Blocks
     THEN LET num_buckets == Val32(create_sizes(Nat32(U)).num_buckets)
              max_size == Val32(create_sizes(Nat32(U)).max_size)
              max_compressed_size == Val32(create_sizes(Nat32(U)).max_compressed_size)
          IN /\ vm' = [max_size |-> max_size, num_buckets |-> num_buckets,
                       max_compressed_size |-> max_compressed_size, output_size |-> 0]
             /\ input' = Zeros(max_size)
             /\ output' = Zeros(OutputBytes(max_compressed_size))
             /\ helper_bucket' = Zeros(BUCKET_SIZE_U8)
             /\ frees' = NoBlocks
             /\ pc' = "created"
     ELSE \* return NULL, after vitemap_delete(vm) when the context was obtained
          /\ frees' = Once(IF "vm" \in got THEN vitemap_delete_frees(got) ELSE {})
          /\ vm' = NoVm
          /\ input' = <<>>
          /\ output' = <<>>
          /\ helper_bucket' = <<>>
          /\ pc' = "none"
  /\ UNCHANGED <<tables, other, wide, locals, stream, peeked, declocals>>

(***************************************************************************)
(* The caller's memcpy(vm->input, data, upper_size): the data is a run of  *)
(* buckets of the palette, cut at upper_size bytes.                        *)
(***************************************************************************)
RECURSIVE Concat(_, _)
Concat(choice, n) ==
  IF n = 0 THEN <<>> ELSE Concat(choice, n - 1) \o Palette[choice[n]]

CallerData(len, choice) == SubSeq(Concat(choice, Len(choice)), 1, len)

Fill(choice) ==
  /\ pc = "created"
  /\ input' = Store(input, 0, CallerData(upper_size, choice))
  /\ pc' = "ready"
  /\ UNCHANGED <<tables, other, wide, upper_size, vm, output, helper_bucket, locals, heap, stream,
                 peeked, declocals>>

(***************************************************************************)
(* vitemap_compress                                                        *)
(***************************************************************************)
\* The if-chain with half the threshold.
Category_HalfThreshold(count) ==
  IF count < BUCKET_SIZE_U8 \div 2 THEN 0
  ELSE IF BUCKET_SIZE - count < BUCKET_SIZE_U8 \div 2 THEN 1
  ELSE 2
\* The if-chain with <= in place of <.
Category_Inclusive(count) ==
  IF count <= BUCKET_SIZE_U8 THEN 0
  ELSE IF BUCKET_SIZE - count <= BUCKET_SIZE_U8 THEN 1
  ELSE 2

\* The branch of the if-chain taken by a bucket with `count` bits set.
Category(count) ==
  IF count < BUCKET_SIZE_U8 THEN 0
  ELSE IF BUCKET_SIZE - count < BUCKET_SIZE_U8 THEN 1
  ELSE 2

\* The raw header with length 31 in place of 32.
Header_Raw31(count) ==
  CASE Category(count) = 0 -> count % 256
    [] Category(count) = 1 -> Or8((BUCKET_SIZE - count) % 256, 64)
    [] OTHER -> Or8(BUCKET_SIZE_U8 - 1, 128)

\* The byte stored through *output at the start of a record.
Header(count) ==
  CASE Category(count) = 0 -> count % 256
    [] Category(count) = 1 -> Or8((BUCKET_SIZE - count) % 256, 64)
    [] OTHER -> Or8(BUCKET_SIZE_U8, 128)

\* The raw branch moving output past the header a second time.
Advance_RawTwice(count) ==
  CASE Category(count) = 0 -> count
    [] Category(count) = 1 -> BUCKET_SIZE - count
    [] OTHER -> BUCKET_SIZE_U8 + 1

\* output moving one byte less than the payload is long.
Advance_OneShort(count) ==
  CASE Category(count) = 0 -> Max(count - 1, 0)
    [] Category(count) = 1 -> Max(BUCKET_SIZE - count - 1, 0)
    [] OTHER -> BUCKET_SIZE_U8 - 1
\* How far output moves after the header byte.
Advance(count) ==
  CASE Category(count) = 0 -> count
    [] Category(count) = 1 -> BUCKET_SIZE - count
    [] OTHER -> BUCKET_SIZE_U8

\* The sparse branch leaving the header byte out of result_size.
Grow_NoHeader(count) ==
  CASE Category(count) = 0 -> count
    [] Category(count) = 1 -> 1 + BUCKET_SIZE - count
    [] OTHER -> 1 + BUCKET_SIZE_U8

\* What the branch adds to result_size.
Grow(count) ==
  CASE Category(count) = 0 -> 1 + count
    [] Category(count) = 1 -> 1 + BUCKET_SIZE - count
    [] OTHER -> 1 + BUCKET_SIZE_U8

\* A compress step that leaves the table of indices moved on by one lane.
tables_after_compress_Moved(t) ==
  [t EXCEPT !.indices = [i \in 1..BUCKET_SIZE |-> (t.indices[i] + 64) % 256]]
\* The static tables after one bucket of vitemap_compress: the loop reads
\* indices through moving_indices and stores nothing into either table.
tables_after_compress(t) == t

\* The output buffer after the payload of the record is stored at offset dst.
Payload_RawInverted(b, count, buf, dst) ==
  CASE Category(count) = 0 -> extract_and_compact_256(b, buf, dst)
    [] Category(count) = 1 -> extract_and_compact_256(invert_256(b), buf, dst)
    [] OTHER -> Store(buf, dst, invert_256(b))
Payload(b, count, buf, dst) ==
  CASE Category(count) = 0 -> extract_and_compact_256(b, buf, dst)
    [] Category(count) = 1 -> extract_and_compact_256(invert_256(b), buf, dst)
    [] OTHER -> Store(buf, dst, b)

\* Where the last of the four 64-byte stores of
\* extract_and_compact_256(b, buf + dst) ends: dst only moves forward, by the
\* popcount of each lane stored.
compact_end(b, dst) ==
  dst + popcnt_u64(b, 0) + popcnt_u64(b, 1) + popcnt_u64(b, 2) + 64

\* Where the furthest store of the payload of a record ends.
PayloadEnd(b, count, dst) ==
  CASE Category(count) = 0 -> compact_end(b, dst)
    [] Category(count) = 1 -> compact_end(invert_256(b), dst)
    [] OTHER -> dst + BUCKET_SIZE_U8

\* The dense branch inverting the bucket where it lies.
input_after_bucket_InPlace(inp, off, count) ==
  IF Category(count) = 1
  THEN Store(inp, off, invert_256(Slice(inp, off, BUCKET_SIZE_U8)))
  ELSE inp
\* vm->input after the pass of the loop on the bucket at offset off: the
\* bucket is the source of popcount_256, extract_and_compact_256,
\* invert_256 and memcpy, and the destination of none.
input_after_bucket(inp, off, count) == inp

vitemap_compress_begin(N) ==
  /\ pc = "ready"
  /\ size' = N
  /\ output' = Store(output, 0, StoreU32(N))
  /\ out_off' = 4
  /\ out_hi' = 4
  /\ result_size' = 4
  /\ bucket' = 0
  /\ pc' = "compress"
  /\ UNCHANGED <<tables, other, wide, upper_size, vm, input, helper_bucket, ret, heap, stream,
                 peeked, declocals>>

vitemap_compress_bucket ==
  /\ pc = "compress"
  /\ bucket < vm.num_buckets
  /\ LET b == Slice(input, BUCKET_SIZE_U8 * bucket, BUCKET_SIZE_U8)
         count == popcount_256(b)
     IN /\ output' = Payload(b, count, Store(output, out_off, <<Header(count)>>),
                             out_off + 1)
        /\ helper_bucket' = IF Category(count) = 1 THEN invert_256(b) ELSE helper_bucket
        /\ out_hi' = Max(out_hi, PayloadEnd(b, count, out_off + 1))
        /\ out_off' = out_off + 1 + Advance(count)
        /\ result_size' = result_size + Grow(count)
  /\ input' = input_after_bucket(input, BUCKET_SIZE_U8 * bucket,
                                 popcount_256(Slice(input, BUCKET_SIZE_U8 * bucket,
                                                    BUCKET_SIZE_U8)))
  /\ bucket' = bucket + 1
  /\ tables' = tables_after_compress(tables)
  /\ UNCHANGED <<other, wide, pc, upper_size, vm, size, ret, heap, stream,
                 peeked, declocals>>

vitemap_compress_return ==
  /\ pc = "compress"
  /\ ~(bucket < vm.num_buckets)
  /\ ret' = result_size
  /\ pc' = "compressed"
  /\ UNCHANGED <<tables, other, wide, upper_size, vm, input, output, helper_bucket,
                 size, bucket, out_off, result_size, out_hi, heap, stream,
                 peeked, declocals>>

(***************************************************************************)
(* vitemap_extract_decompressed_sizes(data, &data_size, &buffer_size), on  *)
(* the buffer the caller will decode: vm->output with the returned size,   *)
(* or a file read into memory with its length n.                           *)
(***************************************************************************)
\* The rounding that adds a bucket to every size.
extract_sizes_AlwaysUp(data) ==
  LET ds == Load32(data)
      full_buckets == Div32(ds, BUCKET_SIZE_U8)
  IN [data_size |-> ds,
      buffer_size |-> Mul32(Add32(full_buckets, Nat32(1)), BUCKET_SIZE_U8)]
\* The two sizes the function stores, in uint32_t.
extract_sizes(data) ==
  LET ds == Load32(data)
      full_buckets == Div32(ds, BUCKET_SIZE_U8)
      remaining_bytes == Mod32(ds, BUCKET_SIZE_U8)
  IN [data_size |-> ds,
      buffer_size |->
        Mul32(Add32(full_buckets, Nat32(IF remaining_bytes > 0 THEN 1 ELSE 0)),
              BUCKET_SIZE_U8)]

vitemap_extract_decompressed_sizes(data, n) ==
  /\ pc \in {"compressed", "none"}
  /\ compressed_data' = data
  /\ compressed_size' = n
  /\ data_size' = Val32(extract_sizes(data).data_size)
  /\ buffer_size' = Val32(extract_sizes(data).buffer_size)
  /\ pc' = "peeked"
  /\ UNCHANGED <<tables, other, wide, upper_size, vm, input, output, helper_bucket, locals, heap,
                 capacity, declocals>>

(***************************************************************************)
(* vitemap_decompress(compressed_data, compressed_size, buffer), the       *)
(* buffer of `cap` bytes.  `decompressed` is the run of bytes stored so    *)
(* far, offsets 0 .. dec_off - 1, of which the caller's buffer holds the   *)
(* first `capacity`.                                                       *)
(***************************************************************************)
vitemap_decompress_begin(cap) ==
  /\ pc = "peeked"
  /\ capacity' = cap
  /\ end' = compressed_size
  /\ pos' = 4
  /\ dec_off' = 0
  /\ read_hi' = 4
  /\ decompressed' = <<>>
  /\ pc' = "decompress"
  /\ UNCHANGED <<tables, other, wide, upper_size, vm, input, output, helper_bucket, locals, heap,
                 compressed_data, compressed_size, peeked>>

\* The 32 bytes of the caller's buffer one pass of the loop covers.  The
\* switch has no case for category 3: the bytes stay as malloc left them,
\* written -1 here.
Decoded_DenseAsSparse(buf, src, category, bucket_size) ==
  CASE category \in {0, 1} -> expand_and_scatter_256(buf, src, bucket_size)
    [] category = 2 -> Slice(buf, src, BUCKET_SIZE_U8)
    [] OTHER -> [i \in 1..BUCKET_SIZE_U8 |-> -1]
Decoded(buf, src, category, bucket_size) ==
  CASE category = 0 -> expand_and_scatter_256(buf, src, bucket_size)
    [] category = 1 -> invert_256(expand_and_scatter_256(buf, src, bucket_size))
    [] category = 2 -> Slice(buf, src, BUCKET_SIZE_U8)
    [] OTHER -> [i \in 1..BUCKET_SIZE_U8 |-> -1]

\* How many bytes after the header one pass of the loop loads.
Loaded(category, bucket_size) ==
  CASE category \in {0, 1} -> bucket_size
    [] category = 2 -> BUCKET_SIZE_U8
    [] OTHER -> 0

\* A load past the end of the buffer compressed_data points into has no
\* defined value: the byte found there is any of these, alike for one pass.
JunkBytes == {0, 255}
\* compressed_data as the loads of one pass see it.
Seen(junk) == compressed_data \o [i \in 1..BUCKET_SIZE_U8 |-> junk]
\* The pass at offset pos loads past the end of the buffer.
Overread ==
  pos + 1 + Loaded(At(compressed_data, pos) \div 64, At(compressed_data, pos) % 64)
    > Len(compressed_data)

\* The cursor left on the header byte.
Step_PayloadOnly(bucket_size) == bucket_size
\* How far compressed_data moves in one pass: past the header byte and past
\* the bucket_size bytes it announces.
Step(bucket_size) == 1 + bucket_size

vitemap_decompress_bucket ==
  /\ pc = "decompress"
  /\ pos < end
  /\ LET bucket_size == At(compressed_data, pos) % 64
         category == At(compressed_data, pos) \div 64
     IN /\ \E junk \in (IF Overread THEN JunkBytes ELSE {0}) :
             decompressed' =
               decompressed \o Decoded(Seen(junk), pos + 1, category, bucket_size)
        /\ read_hi' = Max(read_hi, pos + 1 + Loaded(category, bucket_size))
        /\ pos' = pos + Step(bucket_size)
  /\ dec_off' = dec_off + BUCKET_SIZE_U8
  /\ UNCHANGED <<tables, other, wide, pc, upper_size, vm, input, output, helper_bucket, locals, heap,
                 stream, peeked, end>>

\* The other outcome of a load past the end of the buffer: the process is
\* stopped at the load.
vitemap_decompress_fault ==
  /\ pc = "decompress"
  /\ pos < end
  /\ Overread
  /\ pc' = "fault"
  /\ UNCHANGED <<tables, other, wide, upper_size, vm, input, output, helper_bucket, locals, heap,
                 stream, peeked, declocals>>

vitemap_decompress_return ==
  /\ pc = "decompress"
  /\ ~(pos < end)
  /\ pc' = "done"
  /\ UNCHANGED <<tables, other, wide, upper_size, vm, input, output, helper_bucket, locals, heap,
                 stream, peeked, declocals>>

(***************************************************************************)
(* vitemap_delete, and the caller's free of the decompressed buffer.       *)
(***************************************************************************)
vitemap_delete ==
  /\ pc \in {"compressed", "done"}
  /\ frees' = [b \in Blocks |->
                 frees[b] + Once(vitemap_delete_frees({x \in Blocks : allocs[x] = 1}))[b]]
  /\ pc' = "none"
  /\ upper_size' = 0
  /\ vm' = NoVm
  /\ input' = <<>>
  /\ output' = <<>>
  /\ helper_bucket' = <<>>
  /\ size' = 0 /\ bucket' = 0 /\ out_off' = 0 /\ result_size' = 0 /\ out_hi' = 0
  /\ ret' = 0
  /\ compressed_data' = <<>> /\ compressed_size' = 0 /\ capacity' = 0
  /\ data_size' = 0 /\ buffer_size' = 0
  /\ end' = 0 /\ pos' = 0 /\ dec_off' = 0 /\ read_hi' = 0 /\ decompressed' = <<>>
  /\ UNCHANGED <<tables, other, wide, allocs>>

(***************************************************************************)
(* The life of one context, as in the benchmark: create, fill, compress,   *)
(* size query, decompress into a buffer of buffer_size bytes, delete.      *)
(***************************************************************************)
Next ==
  \/ \E U \in Sizes, got \in Outcomes : vitemap_create(U, got)
  \/ \E choice \in [1..vm.num_buckets -> 1..Len(Palette)] : Fill(choice)
  \/ \E N \in {upper_size} \cup DeclaredSizes : vitemap_compress_begin(N)
  \/ vitemap_compress_bucket
  \/ vitemap_compress_return
  \/ pc = "compressed" /\ vitemap_extract_decompressed_sizes(output, ret)
  \/ vitemap_decompress_begin(buffer_size)
  \/ vitemap_decompress_bucket
  \/ vitemap_decompress_return
  \/ vitemap_delete

Spec == Init /\ [][Next]_vars

(***************************************************************************)
(* The decoder on a file, as in the command-line front end: the file is    *)
(* read into a buffer of its length, the sizes are read from it, and it is *)
(* decoded into a buffer the caller allocated.  The files are frames of a  *)
(* few records, whole or with their last bytes missing.                    *)
(***************************************************************************)
MaxRecords == 2
MaxCut == 2

\* The 31 positions of the set bits of the 31-bit bucket of the unit tests:
\* the longest payload a sparse or dense header of the encoder announces.
Payload31 ==
  [i \in 1..24 |-> i - 1] \o <<27, 28, 32, 35, 42, 49, 53>>

\* Records a file may hold: an empty sparse one, a sparse and a dense one
\* of the unit tests, a raw one, two whose header has both top bits set,
\* and the same payloads of 0, 1, 2 and 31 positions under the other of the
\* sparse and the dense header.
StreamRecords ==
  << <<0>>,
     <<2, 7, 248>>,
     <<65, 124>>,
     <<160>> \o Palette[7],
     <<192>>,
     <<195, 1, 2, 3>>,
     <<66, 7, 248>>,
     <<64>>,
     <<1, 124>>,
     <<31>> \o Payload31,
     <<95>> \o Payload31 >>

RECURSIVE ConcatRecords(_, _)
ConcatRecords(choice, n) ==
  IF n = 0 THEN <<>> ELSE ConcatRecords(choice, n - 1) \o StreamRecords[choice[n]]

\* The frame of the records chosen, declaring 32 bytes per record.
Frame(choice) ==
  StoreU32(BUCKET_SIZE_U8 * Len(choice)) \o ConcatRecords(choice, Len(choice))

\* The file without its last k bytes; the size prefix stays.
Cut(f, k) == SubSeq(f, 1, Max(4, Len(f) - k))

Streams ==
  { Cut(Frame(choice), k) :
      choice \in UNION {[1..n -> 1..Len(StreamRecords)] : n \in 0..MaxRecords},
      k \in 0..MaxCut }

\* The buffers a caller may hand to vitemap_decompress: one of buffer_size
\* bytes, or one a bucket shorter.
Capacities == {c \in {buffer_size, buffer_size - BUCKET_SIZE_U8} : c >= 0}

NextDec ==
  \/ \E s \in Streams : pc = "none" /\ vitemap_extract_decompressed_sizes(s, Len(s))
  \/ \E cap \in Capacities : vitemap_decompress_begin(cap)
  \/ vitemap_decompress_bucket
  \/ vitemap_decompress_fault
  \/ vitemap_decompress_return

SpecDec == Init /\ [][NextDec]_vars

(***************************************************************************)
(* Two contexts side by side: the calls on the first one, and a second     *)
(* context `other` with its own buffers on which vitemap_create, the       *)
(* caller's fill and vitemap_compress run, one step per bucket, in any     *)
(* order with the steps of the first.  Both use the static tables.         *)
(***************************************************************************)
PairBuckets == 1
PairSizes == {BUCKET_SIZE_U8 * k : k \in 1..PairBuckets}
\* The buckets of the palette used here: a sparse, a raw and a dense one.
PairChunks == {2, 7, 9}

other_create(U) ==
  /\ other.pc = "none"
  /\ LET num_buckets == Val32(create_sizes(Nat32(U)).num_buckets)
         max_size == Val32(create_sizes(Nat32(U)).max_size)
         max_compressed_size == Val32(create_sizes(Nat32(U)).max_compressed_size)
     IN other' = [other EXCEPT !.pc = "created",
                               !.num_buckets = num_buckets,
                               !.input = Zeros(max_size),
                               !.output = Zeros(OutputBytes(max_compressed_size)),
                               !.helper_bucket = Zeros(BUCKET_SIZE_U8)]
  /\ UNCHANGED <<pc, tables, upper_size, vm, input, output, helper_bucket, locals,
                 heap, stream, wide, peeked, declocals>>

other_Fill(choice) ==
  /\ other.pc = "created"
  /\ other' = [other EXCEPT !.pc = "ready",
                            !.input = Store(other.input, 0,
                                            CallerData(Len(other.input), choice))]
  /\ UNCHANGED <<pc, tables, upper_size, vm, input, output, helper_bucket, locals,
                 heap, stream, wide, peeked, declocals>>

other_compress_begin(N) ==
  /\ other.pc = "ready"
  /\ other' = [other EXCEPT !.pc = "compress",
                            !.size = N,
                            !.output = Store(other.output, 0, StoreU32(N)),
                            !.out_off = 4,
                            !.result_size = 4,
                            !.bucket = 0]
  /\ UNCHANGED <<pc, tables, upper_size, vm, input, output, helper_bucket, locals,
                 heap, stream, wide, peeked, declocals>>

other_compress_bucket ==
  /\ other.pc = "compress"
  /\ other.bucket < other.num_buckets
  /\ LET b == Slice(other.input, BUCKET_SIZE_U8 * other.bucket, BUCKET_SIZE_U8)
         count == popcount_256(b)
     IN other' = [other EXCEPT
          !.output = Payload(b, count,
                             Store(other.output, other.out_off, <<Header(count)>>),
                             other.out_off + 1),
          !.helper_bucket = IF Category(count) = 1 THEN invert_256(b)
                            ELSE other.helper_bucket,
          !.out_off = other.out_off + 1 + Advance(count),
          !.result_size = other.result_size + Grow(count),
          !.bucket = other.bucket + 1]
  /\ tables' = tables_after_compress(tables)
  /\ UNCHANGED <<pc, upper_size, vm, input, output, helper_bucket, locals,
                 heap, stream, wide, peeked, declocals>>

other_compress_return ==
  /\ other.pc = "compress"
  /\ ~(other.bucket < other.num_buckets)
  /\ other' = [other EXCEPT !.pc = "compressed", !.ret = other.result_size]
  /\ UNCHANGED <<pc, tables, upper_size, vm, input, output, helper_bucket, locals,
                 heap, stream, wide, peeked, declocals>>

NextPair ==
  \/ \E U \in PairSizes : vitemap_create(U, Blocks)
  \/ \E choice \in [1..vm.num_buckets -> PairChunks] : Fill(choice)
  \/ vitemap_compress_begin(upper_size)
  \/ vitemap_compress_bucket
  \/ vitemap_compress_return
  \/ pc = "compressed" /\ vitemap_extract_decompressed_sizes(output, ret)
  \/ vitemap_decompress_begin(buffer_size)
  \/ vitemap_decompress_bucket
  \/ vitemap_decompress_return
  \/ \E U \in PairSizes : other_create(U)
  \/ \E choice \in [1..other.num_buckets -> PairChunks] : other_Fill(choice)
  \/ other_compress_begin(Len(other.input))
  \/ other_compress_bucket
  \/ other_compress_return

SpecPair == Init /\ [][NextPair]_vars

(***************************************************************************)
(* The two size computations on arguments from the whole uint32_t range:   *)
(* the sizes of the context vitemap_create returns, and the sizes          *)
(* vitemap_extract_decompressed_sizes reads from a buffer.  Buffers of     *)
(* these sizes are not built.                                              *)
(***************************************************************************)
MaxLow == 100
\* Arguments up to MaxLow above 0 and 2^16 and below 2^16 and 2^32.
Wide == { [hi |-> h, lo |-> l] : h \in {0, 1, Half - 1},
                                 l \in (0..MaxLow) \cup ((Half - 1 - MaxLow)..(Half - 1)) }

vitemap_create32(U) ==
  /\ pc = "none"
  /\ arg32' = U
  /\ sizes32' = create_sizes(U)
  /\ pc' = "sized"
  /\ UNCHANGED <<tables, other, upper_size, vm, input, output, helper_bucket, locals, heap,
                 stream, peeked, declocals>>

vitemap_extract_decompressed_sizes32(N) ==
  /\ pc = "none"
  /\ arg32' = N
  /\ sizes32' = extract_sizes(Bytes32(N))
  /\ pc' = "read"
  /\ UNCHANGED <<tables, other, upper_size, vm, input, output, helper_bucket, locals, heap,
                 stream, peeked, declocals>>

NextSizes ==
  \/ \E U \in Wide : vitemap_create32(U)
  \/ \E N \in Wide : vitemap_extract_decompressed_sizes32(N)

SpecSizes == Init /\ [][NextSizes]_vars

(***************************************************************************)
(* The classifier on every population count: a one-bucket context whose    *)
(* bucket the caller fills with its first c bits set, c = 0 .. 256.        *)
(***************************************************************************)
\* The bucket whose bits 0 .. c - 1 are set.
FirstBits(c) ==
  [i \in 1..BUCKET_SIZE_U8 |->
     IF 8 * i <= c THEN 255
     ELSE IF 8 * (i - 1) >= c THEN 0
     ELSE 2 ^ (c - 8 * (i - 1)) - 1]

FillBits(c) ==
  /\ pc = "created"
  /\ input' = Store(input, 0, SubSeq(FirstBits(c), 1, upper_size))
  /\ pc' = "ready"
  /\ UNCHANGED <<tables, other, wide, upper_size, vm, output, helper_bucket, locals, heap, stream,
                 peeked, declocals>>

NextClassify ==
  \/ vitemap_create(BUCKET_SIZE_U8, Blocks)
  \/ \E c \in 0..BUCKET_SIZE : FillBits(c)
  \/ vitemap_compress_begin(upper_size)
  \/ vitemap_compress_bucket
  \/ vitemap_compress_return

SpecClassify == Init /\ [][NextClassify]_vars

(***************************************************************************)
(* One context used for call after call: when vitemap_compress has         *)
(* returned the caller copies new data over vm->input and calls it again.  *)
(* Nothing clears output or helper_bucket between the calls.               *)
(***************************************************************************)
ReuseBuckets == 2
ReuseSizes == {BUCKET_SIZE_U8 * k : k \in 1..ReuseBuckets}
\* The buckets of the palette used here: the empty one, the sparse one whose
\* stores reach furthest, a raw and a dense one.
ReuseChunks == {1, 4, 7, 9}

Refill(choice) ==
  /\ pc = "compressed"
  /\ input' = Store(input, 0, CallerData(upper_size, choice))
  /\ pc' = "ready"
  /\ UNCHANGED <<tables, other, wide, upper_size, vm, output, helper_bucket, locals, heap, stream,
                 peeked, declocals>>

NextReuse ==
  \/ \E U \in ReuseSizes : vitemap_create(U, Blocks)
  \/ \E choice \in [1..vm.num_buckets -> ReuseChunks] : Fill(choice)
  \/ \E choice \in [1..vm.num_buckets -> ReuseChunks] : Refill(choice)
  \/ \E N \in {upper_size, 0} : vitemap_compress_begin(N)
  \/ vitemap_compress_bucket
  \/ vitemap_compress_return

SpecReuse == Init /\ [][NextReuse]_vars

(***************************************************************************)
(* Vocabulary of the properties: the wire format as the format description *)
(* states it, independent of the primitives above.                         *)
(***************************************************************************)
PadLen(n) == ((n + BUCKET_SIZE_U8 - 1) \div BUCKET_SIZE_U8) * BUCKET_SIZE_U8
\* Bucket i (from 0) of vm->input.
InChunk(i) == Slice(input, BUCKET_SIZE_U8 * i, BUCKET_SIZE_U8)
\* Bit position p = byte_index * 8 + bit_index of a bucket, bit 0 the least
\* significant bit of a byte.
BitAt(b, p) == Bit(b[(p \div 8) + 1], p % 8)
Positions == [i \in 1..BUCKET_SIZE |-> i - 1]
\* The positions of the set bits of a bucket, ascending.
SetPositions(b) == SelectSeq(Positions, LAMBDA p : BitAt(b, p) = 1)
ClearPositions(b) == SelectSeq(Positions, LAMBDA p : BitAt(b, p) = 0)
Count(b) == Len(SetPositions(b))
Complement(b) == [i \in 1..BUCKET_SIZE_U8 |-> 255 - b[i]]
StrictlyAscending(q) == \A i \in 1..(Len(q) - 1) : q[i] < q[i + 1]
\* Payload bytes of the record of a bucket with c bits set.
PayLen(c) == IF c < 32 THEN c ELSE IF c > 224 THEN 256 - c ELSE 32

\* The offsets of the headers met when walking buf from offset off, reading a
\* header byte and skipping (header & 0x3F) bytes, while below limit.
RECURSIVE Walk(_, _, _)
Walk(buf, off, limit) ==
  IF off >= limit \/ off >= Len(buf) THEN <<>>
  ELSE <<off>> \o Walk(buf, off + 1 + (At(buf, off) % 64), limit)
\* Where that walk stops.
WalkEnd(buf, offs) ==
  IF offs = <<>> THEN 4
  ELSE offs[Len(offs)] + 1 + (At(buf, offs[Len(offs)]) % 64)
Records == Walk(output, 4, ret)
RECURSIVE SumLen(_)
SumLen(n) == IF n = 0 THEN 0 ELSE SumLen(n - 1) + 1 + PayLen(Count(InChunk(n - 1)))

\* vitemap_compress has returned and nothing has run since.
Compressed == pc = "compressed"

(***************************************************************************)
(* C1.  Round trip: when the context was created for N bytes, the caller   *)
(* copied N bytes into input (the rest of input zero) and compress was     *)
(* called with N, decompress of the frame leaves exactly the N bytes       *)
(* followed by zeros up to ceil(N/32)*32 bytes, and the size read from the *)
(* frame is N.                                                             *)
(***************************************************************************)
RoundTripCase ==
  /\ pc = "done"
  /\ size = upper_size
  /\ \A i \in (size + 1)..Len(input) : input[i] = 0

C1_RoundTrip ==
  RoundTripCase =>
    /\ Len(decompressed) = PadLen(size)
    /\ \A i \in 1..size : decompressed[i] = input[i]
    /\ \A i \in (size + 1)..PadLen(size) : decompressed[i] = 0
    /\ data_size = size

\* A 63-byte input: a sparse bucket, then a dense one padded with a zero byte.
C1_Witness ==
  /\ RoundTripCase
  /\ size = 2 * BUCKET_SIZE_U8 - 1
  /\ Count(InChunk(0)) \in 1..31
  /\ Count(InChunk(1)) > 224
  /\ Len(decompressed) = 2 * BUCKET_SIZE_U8

(***************************************************************************)
(* C2.  For every declared size N <= max_size the frame holds exactly      *)
(* ceil(N/32) records after the prefix.                                    *)
(***************************************************************************)
C2_RecordsPerDeclaredSize ==
  (pc = "compressed" /\ size <= vm.max_size) =>
    /\ Len(Records) = PadLen(size) \div BUCKET_SIZE_U8
    /\ WalkEnd(output, Records) = ret

(***************************************************************************)
(* C3.  For N <= max_size decompress stores exactly buffer_size bytes, the *)
(* size vitemap_extract_decompressed_sizes reports, and never stores at an *)
(* offset >= buffer_size.                                                  *)
(***************************************************************************)
C3_DecompressWritesBufferSize ==
  (pc \in {"decompress", "done"} /\ size <= vm.max_size) =>
    /\ buffer_size = PadLen(size)
    /\ dec_off <= buffer_size
    /\ pc = "done" => dec_off = buffer_size

(***************************************************************************)
(* C4.  Classifier: a bucket with c bits set gets category 00 iff c < 32,  *)
(* category 01 iff c > 224 and category 10 iff 32 <= c <= 224; category 11 *)
(* is never written.                                                       *)
(***************************************************************************)
C4_Classifier ==
  Compressed =>
    /\ Len(Records) = vm.num_buckets
    /\ \A i \in 1..Len(Records) :
         LET c == Count(InChunk(i - 1))
             cat == At(output, Records[i]) \div 64
         IN /\ cat = 0 <=> c < 32
            /\ cat = 1 <=> c > 224
            /\ cat = 2 <=> (32 <= c /\ c <= 224)
            /\ cat # 3

\* Both edges of the sparse/raw boundary in one frame: c = 31 and c = 32.
C4_Witness ==
  /\ pc = "compressed"
  /\ vm.num_buckets = 2
  /\ Count(InChunk(0)) = 31 /\ At(output, Records[1]) \div 64 = 0
  /\ Count(InChunk(1)) = 32 /\ At(output, Records[2]) \div 64 = 2

(***************************************************************************)
(* C5.  Sparse record: a bucket with c < 32 bits set is written as the     *)
(* header byte c followed by c bytes, the positions of its set bits in     *)
(* strictly ascending order (position = byte_index*8 + bit_index, bit 0    *)
(* the least significant).  An all-zero bucket alone gives a frame of 5    *)
(* bytes with header 0x00; byte 15 = 0x10 alone gives header 0x01 and      *)
(* payload 0x7C.                                                           *)
(***************************************************************************)
C5_SparseRecord ==
  Compressed =>
    /\ \A i \in 1..vm.num_buckets :
         LET b == InChunk(i - 1)
             c == Count(b)
         IN c < 32 =>
              /\ i <= Len(Records)
              /\ At(output, Records[i]) = c
              /\ Slice(output, Records[i] + 1, c) = SetPositions(b)
              /\ StrictlyAscending(Slice(output, Records[i] + 1, c))
    /\ (vm.num_buckets = 1 /\ InChunk(0) = Zeros(BUCKET_SIZE_U8)) =>
         (ret = 5 /\ At(output, 4) = 0)
    /\ (vm.num_buckets >= 1 /\ InChunk(0) = Chunk(0, (15 :> 16))) =>
         (At(output, 4) = 1 /\ At(output, 5) = 124)

\* The seven-bit bucket of the unit tests, whose bits lie in two lanes, as
\* the second bucket of a frame.
C5_Witness ==
  /\ pc = "compressed"
  /\ vm.num_buckets = 2
  /\ Len(Records) = 2
  /\ Slice(output, Records[2], 8) = <<7, 1, 3, 5, 7, 20, 26, 248>>

(***************************************************************************)
(* C6.  Dense record mirrors the sparse one: for a bucket x with c < 32    *)
(* bits set, the complement of x is written as the header byte c | 0x40    *)
(* followed by the same c payload bytes that x is written with, the        *)
(* positions of the clear bits in ascending order.  An all-ones bucket     *)
(* alone gives a frame of 5 bytes with header 0x40; clear bits at 7 and    *)
(* 248 only give length 2 and payload 0x07 0xF8.                           *)
(***************************************************************************)
C6_DenseMirrorsSparse ==
  Compressed =>
    /\ \A i \in 1..vm.num_buckets :
         LET y == InChunk(i - 1)
             x == Complement(y)
             c == Count(x)
         IN c < 32 =>
              /\ i <= Len(Records)
              /\ At(output, Records[i]) = c + 64
              /\ Slice(output, Records[i] + 1, c) = ClearPositions(y)
              /\ Slice(output, Records[i] + 1, c)
                   = Slice(Payload(x, popcount_256(x), Zeros(3 * BUCKET_SIZE_U8), 0), 0, c)
    /\ (vm.num_buckets = 1 /\ InChunk(0) = Chunk(255, <<>>)) =>
         (ret = 5 /\ At(output, 4) = 64)
    /\ (vm.num_buckets >= 1 /\ InChunk(0) = Chunk(255, (0 :> 127) @@ (31 :> 254))) =>
         Slice(output, 4, 3) = <<66, 7, 248>>

\* The complement of the 31-bit bucket of the unit tests, after a sparse bucket.
C6_Witness ==
  /\ pc = "compressed"
  /\ vm.num_buckets = 2
  /\ Count(InChunk(0)) \in 1..31
  /\ Count(InChunk(1)) = 225
  /\ Len(Records) = 2
  /\ At(output, Records[2]) = 95
  /\ ret = Records[2] + 32

(***************************************************************************)
(* C7.  Raw record: a bucket with 32..224 bits set is written as the       *)
(* header byte 0xA0 followed by its 32 bytes unchanged; the i-th record    *)
(* carries the i-th bucket.                                                *)
(***************************************************************************)
C7_RawRecord ==
  Compressed =>
    \A i \in 1..vm.num_buckets :
      LET b == InChunk(i - 1)
          c == Count(b)
      IN (32 <= c /\ c <= 224) =>
           /\ i <= Len(Records)
           /\ At(output, Records[i]) = 160
           /\ Slice(output, Records[i] + 1, BUCKET_SIZE_U8) = b

\* Two different raw buckets in one frame.
C7_Witness ==
  /\ pc = "compressed"
  /\ vm.num_buckets = 2
  /\ Count(InChunk(0)) = 128
  /\ Count(InChunk(1)) = 224
  /\ Records = <<4, 37>>
  /\ Slice(output, 38, BUCKET_SIZE_U8) = InChunk(1)

(***************************************************************************)
(* C8.  Frame layout: the returned size is 4 plus the sum over the records *)
(* of (1 + payload length); walking the frame from offset 4, reading a     *)
(* header and skipping (header & 0x3F) bytes, visits one header per bucket *)
(* of the context and stops exactly at the returned size; the low six bits *)
(* of each header are the payload length of its bucket.                    *)
(***************************************************************************)
C8_FrameLayout ==
  Compressed =>
    /\ ret = 4 + SumLen(vm.num_buckets)
    /\ Len(Records) = vm.num_buckets
    /\ WalkEnd(output, Records) = ret
    /\ \A i \in 1..Len(Records) :
         At(output, Records[i]) % 64 = PayLen(Count(InChunk(i - 1)))

\* A frame with a sparse and a raw record: 4 + (1 + 7) + (1 + 32) bytes.
C8_Witness ==
  /\ pc = "compressed"
  /\ vm.num_buckets = 2
  /\ Count(InChunk(0)) = 7
  /\ Count(InChunk(1)) = 32
  /\ ret = 45
  /\ Records = <<4, 12>>

(***************************************************************************)
(* C9.  Size prefix: output bytes 0..3, read as a little-endian unsigned   *)
(* 32-bit integer, are the declared size N, whatever the input and the     *)
(* capacity of the context.                                                *)
(***************************************************************************)
C9_SizePrefix ==
  (pc = "compress" \/ Compressed) =>
    At(output, 0) + 256 * At(output, 1) + 65536 * At(output, 2)
      + 16777216 * At(output, 3) = size

\* A declared size of more than one byte, larger than the context.
C9_Witness ==
  /\ pc = "compressed"
  /\ size = WideSize
  /\ size > vm.max_size
  /\ At(output, 0) = WideSize % 256
  /\ At(output, 1) = WideSize \div 256

(***************************************************************************)
(* C10.  Size bound: every record takes at most 33 bytes, so the returned  *)
(* size is at most 4 + 33 * num_buckets, and the valid prefix              *)
(* [0, returned size) ends before the trailing 32 bytes of the output      *)
(* buffer.                                                                 *)
(***************************************************************************)
C10_SizeBound ==
  /\ pc = "compress" =>
       /\ out_off <= 4 + 33 * bucket
       /\ result_size <= 4 + 33 * bucket
  /\ Compressed =>
       /\ \A i \in 1..Len(Records) : 1 + (At(output, Records[i]) % 64) <= 33
       /\ out_off <= 4 + 33 * vm.num_buckets
       /\ ret <= 4 + 33 * vm.num_buckets
       /\ ret + BUCKET_SIZE_U8 <= Len(output)

\* The bound is reached: two raw records, 4 + 33 * 2 bytes.
C10_Witness ==
  /\ pc = "compressed"
  /\ vm.num_buckets = 2
  /\ ret = 4 + 33 * 2
  /\ Len(output) - ret >= BUCKET_SIZE_U8

(***************************************************************************)
(* C11.  As stated: an output buffer of 4 + 33 * chunks + 32 bytes is      *)
(* enough for compress; no store of the prefix, of a header, of a raw copy *)
(* or of the compaction primitive touches an output offset at or past      *)
(* 4 + 33 * chunks + 32.                                                   *)
(***************************************************************************)
C11_Slack33 ==
  pc \in {"compress", "compressed"} =>
    out_hi <= 4 + 33 * vm.num_buckets + BUCKET_SIZE_U8

(***************************************************************************)
(* C11, amended.  An output buffer of 4 + 64 * chunks + 32 bytes, the one  *)
(* vitemap_create allocates, is enough for compress: no store of the       *)
(* prefix, of a header, of a raw copy or of the compaction primitive       *)
(* touches an output offset at or past 4 + 64 * chunks + 32.               *)
(***************************************************************************)
C11_Slack64 ==
  pc \in {"compress", "compressed"} =>
    /\ out_hi <= 4 + 64 * vm.num_buckets + BUCKET_SIZE_U8
    /\ Len(output) >= 4 + 64 * vm.num_buckets + BUCKET_SIZE_U8

\* A one-bucket context whose bucket has 31 bits set in its first lane: the
\* store for the last lane covers offsets 36 .. 99, past 4 + 33 + 32 = 69.
C11_Witness ==
  /\ pc = "compressed"
  /\ vm.num_buckets = 1
  /\ Count(InChunk(0)) = 31
  /\ out_hi = 100
  /\ out_hi > 4 + 33 * vm.num_buckets + BUCKET_SIZE_U8

(***************************************************************************)
(* C14.  compress with a declared size N > max_size is rejected: nothing   *)
(* is written to output, not even the size prefix, and no frame is         *)
(* returned as a success.                                                  *)
(***************************************************************************)
C14_InputTooLargeRejected ==
  (pc \in {"compress", "compressed"} /\ size > vm.max_size) =>
    /\ output = Zeros(Len(output))
    /\ pc # "compressed"

(***************************************************************************)
(* C18.  When a calloc fails inside vitemap_create, the call returns NULL  *)
(* and every block that was obtained is released exactly once; when all    *)
(* succeed the four blocks stay allocated until vitemap_delete, which      *)
(* releases each exactly once.  No block is released twice and none is     *)
(* left allocated once the context is gone.                                *)
(***************************************************************************)
C18_ReleasedExactlyOnce ==
  /\ \A b \in Blocks : allocs[b] <= 1 /\ frees[b] <= allocs[b]
  /\ pc = "none" => (vm = NoVm /\ frees = allocs)
  /\ pc \in {"created", "ready", "compress", "compressed", "peeked", "decompress", "done"} =>
       (allocs = Once(Blocks) /\ frees = NoBlocks)

\* vitemap_create returned NULL after the calloc of vm->output failed: the
\* context and the two buffers obtained were released.
C18_Witness ==
  /\ pc = "none"
  /\ vm = NoVm
  /\ allocs = Once({"vm", "input", "helper_bucket"})
  /\ frees = Once({"vm", "input", "helper_bucket"})

(***************************************************************************)
(* C20.  After compress returns S, the field output_size of the context    *)
(* equals S.                                                               *)
(***************************************************************************)
C20_OutputSizeStored ==
  pc = "compressed" => vm.output_size = ret

(***************************************************************************)
(* Vocabulary of the decoder properties.                                   *)
(***************************************************************************)
\* The offsets of the headers of the stream the loop has gone past.
Consumed == SelectSeq(Walk(compressed_data, 4, compressed_size), LAMBDA o : o < pos)
\* The header at offset o has both category bits set.
Reserved(o) == At(compressed_data, o) \div 64 = 3
\* The payload the header at offset o announces ends past compressed_size.
Truncated(o) == o + 1 + (At(compressed_data, o) % 64) > compressed_size

(***************************************************************************)
(* C12.  decompress on a stream with a header whose category bits are 11   *)
(* fails with a corrupt-stream error: once such a header has been read the *)
(* loop neither goes on to the next record, as after a valid one, nor      *)
(* returns normally.                                                       *)
(***************************************************************************)
C12_ReservedRejected ==
  (\E i \in 1..Len(Consumed) : Reserved(Consumed[i])) =>
    pc \notin {"decompress", "done"}

(***************************************************************************)
(* C13.  decompress on a truncated stream, where a header announces a      *)
(* payload that ends past compressed_size, fails with a corrupt-stream     *)
(* error: it reads no byte at or past offset compressed_size and does not  *)
(* return normally.                                                        *)
(***************************************************************************)
C13_TruncatedRejected ==
  pc \in {"decompress", "done", "fault"} =>
    /\ read_hi <= compressed_size
    /\ (\E i \in 1..Len(Consumed) : Truncated(Consumed[i])) => pc # "done"

(***************************************************************************)
(* C15.  decompress into a buffer smaller than the buffer_size reported    *)
(* for the stream is refused: no byte is stored past the end of the        *)
(* buffer and the call does not return normally.                           *)
(***************************************************************************)
C15_OutputTooSmallRejected ==
  (pc \in {"decompress", "done", "fault"} /\ capacity < buffer_size) =>
    /\ dec_off <= capacity
    /\ pc # "done"

(***************************************************************************)
(* Vocabulary of the size properties: uint32_t values compared as the      *)
(* numbers they stand for.                                                 *)
(***************************************************************************)
Leq32(a, b) == a.hi < b.hi \/ (a.hi = b.hi /\ a.lo <= b.lo)
\* b is the smallest multiple of 32 that is >= a.
RoundsUp32(a, b) ==
  /\ b.lo % 32 = 0
  /\ Leq32(a, b)
  /\ \/ b.hi = a.hi /\ b.lo - a.lo <= 31
     \/ b.hi = a.hi + 1 /\ Half + b.lo - a.lo <= 31

(***************************************************************************)
(* C16.  For every buffer whose first four bytes hold the unsigned 32-bit  *)
(* value N, the size query gives data_size = N and buffer_size the         *)
(* smallest multiple of 32 that is >= N, so buffer_size >= data_size and   *)
(* buffer_size - data_size <= 31.                                          *)
(***************************************************************************)
C16_PeekRoundsUp ==
  pc = "read" =>
    /\ sizes32.data_size = arg32
    /\ RoundsUp32(arg32, sizes32.buffer_size)

(***************************************************************************)
(* C17.  For every upper bound U, vitemap_create(U) gives num_buckets =    *)
(* ceil(U/32) and max_size = 32 * num_buckets, the smallest multiple of 32 *)
(* that is >= U; create(1) gives 32 and 1, create(100) gives 128 and 4.    *)
(***************************************************************************)
C17_CreateRoundsUp ==
  pc = "sized" =>
    /\ sizes32.num_buckets =
         Add32(Div32(arg32, 32), Nat32(IF arg32.lo % 32 = 0 THEN 0 ELSE 1))
    /\ RoundsUp32(arg32, sizes32.max_size)
    /\ arg32 = Nat32(1) =>
         (sizes32.max_size = Nat32(32) /\ sizes32.num_buckets = Nat32(1))
    /\ arg32 = Nat32(100) =>
         (sizes32.max_size = Nat32(128) /\ sizes32.num_buckets = Nat32(4))

(***************************************************************************)
(* Vocabulary of the independence property: a compress call run with       *)
(* nothing beside it, from a fresh output buffer of cap bytes, after its   *)
(* first n buckets.                                                        *)
(***************************************************************************)
RECURSIVE compress_alone(_, _, _, _)
compress_alone(inp, cap, N, n) ==
  IF n = 0
  THEN [output |-> Store(Zeros(cap), 0, StoreU32(N)), out_off |-> 4, result_size |-> 4]
  ELSE LET before == compress_alone(inp, cap, N, n - 1)
           b == Slice(inp, BUCKET_SIZE_U8 * (n - 1), BUCKET_SIZE_U8)
           count == popcount_256(b)
       IN [output |-> Payload(b, count,
                              Store(before.output, before.out_off, <<Header(count)>>),
                              before.out_off + 1),
           out_off |-> before.out_off + 1 + Advance(count),
           result_size |-> before.result_size + Grow(count)]

(***************************************************************************)
(* C19.  Distinct contexts are independent: however the per-bucket steps   *)
(* of compress on one context are interleaved with those of compress on    *)
(* another (and with the steps of decompress on the first one's frame),    *)
(* each call has, after every step and at its return, the output, cursor   *)
(* and size it has when run alone, and decompress gives back the input;    *)
(* the static tables indices and bit_lookup keep the contents start-up     *)
(* gave them.                                                              *)
(***************************************************************************)
C19_Independent ==
  /\ tables = [indices |-> init_indices, bit_lookup |-> init_bit_lookup]
  /\ pc \in {"compress", "compressed", "peeked", "decompress", "done"} =>
       LET alone == compress_alone(input, Len(output), size, bucket)
       IN /\ output = alone.output
          /\ out_off = alone.out_off
          /\ result_size = alone.result_size
          /\ pc # "compress" => (bucket = vm.num_buckets /\ ret = alone.result_size)
  /\ other.pc \in {"compress", "compressed"} =>
       LET alone == compress_alone(other.input, Len(other.output), other.size,
                                   other.bucket)
       IN /\ other.output = alone.output
          /\ other.out_off = alone.out_off
          /\ other.result_size = alone.result_size
          /\ other.pc = "compressed" =>
               (other.bucket = other.num_buckets /\ other.ret = alone.result_size)
  /\ pc = "done" => decompressed = input

\* Both compress calls are under way: the second has stored its prefix and
\* not yet its bucket, a sparse one, while the first has stored its bucket,
\* a dense one, through its scratch buffer.
C19_Witness ==
  /\ pc = "compress" /\ bucket = 1
  /\ other.pc = "compress" /\ other.bucket = 0 /\ other.num_buckets = 1
  /\ Count(InChunk(0)) > 224
  /\ helper_bucket = Complement(InChunk(0))
  /\ Count(Slice(other.input, 0, BUCKET_SIZE_U8)) \in 1..31
  /\ other.helper_bucket = Zeros(BUCKET_SIZE_U8)

(***************************************************************************)
(* C21.  Inversion at the decoder: when a file holds the same payload of   *)
(* L <= 31 positions once under the header L and once under the header     *)
(* 0x40 | L, the 32 bytes the decoder stores for the dense record are the  *)
(* bitwise complement of those it stores for the sparse one, and each of   *)
(* the two records moves the input cursor by 1 + L bytes.                  *)
(***************************************************************************)
\* The 32 bytes the i-th pass of the loop stored.
Block(i) == SubSeq(decompressed, BUCKET_SIZE_U8 * (i - 1) + 1, BUCKET_SIZE_U8 * i)
\* The records at the offsets a and b lie inside the file, a is sparse with
\* L <= 31 positions and b is dense with the same positions.
Twins(a, b) ==
  LET L == At(compressed_data, a)
  IN /\ L <= 31
     /\ At(compressed_data, b) = 64 + L
     /\ a + 1 + L <= Len(compressed_data)
     /\ b + 1 + L <= Len(compressed_data)
     /\ Slice(compressed_data, a + 1, L) = Slice(compressed_data, b + 1, L)
\* The offset the cursor stood at after the i-th pass.
CursorAfter(i) == IF i = Len(Consumed) THEN pos ELSE Consumed[i + 1]

C21_DenseIsComplement ==
  pc \in {"decompress", "done"} =>
    /\ Len(decompressed) = BUCKET_SIZE_U8 * Len(Consumed)
    /\ \A i, j \in 1..Len(Consumed) :
         Twins(Consumed[i], Consumed[j]) =>
           /\ Block(j) = Complement(Block(i))
           /\ CursorAfter(i) - Consumed[i] = 1 + At(compressed_data, Consumed[i])
           /\ CursorAfter(j) - Consumed[j] = 1 + At(compressed_data, Consumed[i])

\* Both twins of 31 positions have been decoded, the dense one first.
C21_Witness ==
  /\ pc = "done"
  /\ Len(Consumed) = 2
  /\ At(compressed_data, Consumed[2]) = 31
  /\ Twins(Consumed[2], Consumed[1])
  /\ Block(2) = Palette[4]

(***************************************************************************)
(* C22.  Scenario S4: compressing the 32-byte input whose bytes are all    *)
(* 0xAA (128 bits set) gives 20 00 00 00, then one header byte, then the   *)
(* 32 bytes 0xAA, 37 bytes in all.  As stated the header byte is 0x9F; the *)
(* byte vitemap_compress stores is 0xA0.                                   *)
(***************************************************************************)
\* vitemap_compress(vm, 32) has returned on a one-bucket context whose input
\* is 32 bytes of 0xAA.
S4 ==
  /\ pc = "compressed"
  /\ vm.num_buckets = 1
  /\ size = BUCKET_SIZE_U8
  /\ input = [i \in 1..BUCKET_SIZE_U8 |-> 170]
\* The frame of S4 with the header byte h.
S4Frame(h) == <<32, 0, 0, 0, h>> \o [i \in 1..BUCKET_SIZE_U8 |-> 170]

C22_S4_Header9F ==
  S4 => ret = 37 /\ Slice(output, 0, ret) = S4Frame(159)

C22_S4_HeaderA0 ==
  S4 => ret = 37 /\ Slice(output, 0, ret) = S4Frame(160)

C22_Witness ==
  S4 /\ Count(InChunk(0)) = 128 /\ At(output, 4) = 160

(***************************************************************************)
(* C23.  The over-write of the compaction is harmless inside one call of   *)
(* vitemap_compress: after every pass of the loop and at the return, each  *)
(* record stored so far holds exactly the bytes its own bucket gives when  *)
(* it is encoded alone into a cleared buffer, the records lie back to back *)
(* after the prefix, and at the return they fill [4, returned size), so    *)
(* that no byte left behind by a 64-byte store stays below the returned    *)
(* size and no later store has changed a record already complete.          *)
(***************************************************************************)
\* The record of the bucket b when it is encoded alone at the start of a
\* cleared buffer.
RecordAlone(b) ==
  LET c == popcount_256(b)
  IN Slice(Payload(b, c, Store(Zeros(1 + BUCKET_SIZE_U8 + 64), 0, <<Header(c)>>), 1),
           0, 1 + PayLen(Count(b)))

C23_OverwriteHarmless ==
  pc \in {"compress", "compressed"} =>
    /\ Slice(output, 0, 4) = StoreU32(size)
    /\ out_off = 4 + SumLen(bucket)
    /\ \A i \in 1..bucket :
         Slice(output, 4 + SumLen(i - 1), SumLen(i) - SumLen(i - 1))
           = RecordAlone(InChunk(i - 1))
    /\ pc = "compressed" => ret = 4 + SumLen(vm.num_buckets)

\* A sparse record whose 64-byte stores reach past the returned size, with a
\* dense record stored over their tail.
C23_Witness ==
  /\ pc = "compressed"
  /\ vm.num_buckets = 2
  /\ Category(Count(InChunk(0))) = 0
  /\ Count(InChunk(0)) = 31
  /\ Category(Count(InChunk(1))) = 1
  /\ Count(InChunk(1)) = 225
  /\ out_hi > ret

(***************************************************************************)
(* C25.  Context reuse: whatever calls of vitemap_compress the context has *)
(* served before, the size a call returns and the bytes of output below    *)
(* that size are those the same input and declared size give on a context  *)
(* fresh from vitemap_create: nothing left in output or in the scratch      *)
(* bucket by an earlier call shows in them.                                *)
(***************************************************************************)
C25_ReuseIndependent ==
  Compressed =>
    LET alone == compress_alone(input, Len(output), size, vm.num_buckets)
    IN /\ ret = alone.result_size
       /\ Slice(output, 0, ret) = Slice(alone.output, 0, ret)

\* A call has returned on a context whose output still holds, past the
\* returned size, bytes of an earlier and longer frame.
C25_Witness ==
  /\ pc = "compressed"
  /\ vm.num_buckets = 2
  /\ ret < 4 + 33 * 2
  /\ output # compress_alone(input, Len(output), size, vm.num_buckets).output

(***************************************************************************)
(* C24.  Memory safety of compress as allocated: on a context of at least  *)
(* one bucket, vm->output is the 4 + 64 * num_buckets + 32 bytes           *)
(* vitemap_create asked for, no store of vitemap_compress ends past the    *)
(* end of that buffer, and the scratch bucket the dense branch stores into *)
(* is 32 bytes before and after the store.                                 *)
(***************************************************************************)
C24_StoresInsideBuffers ==
  (pc \in {"ready", "compress", "compressed"} /\ vm.num_buckets >= 1) =>
    /\ Len(output) = 4 + 64 * vm.num_buckets + BUCKET_SIZE_U8
    /\ Len(output) = OutputBytes(vm.max_compressed_size)
    /\ pc # "ready" => out_hi <= Len(output)
    /\ Len(helper_bucket) = BUCKET_SIZE_U8

\* A dense bucket whose complement has 31 bits in its first lane: the
\* complement is in the scratch bucket and the last 64-byte store ends at
\* the very end of vm->output.
C24_Witness ==
  /\ pc = "compressed"
  /\ vm.num_buckets = 1
  /\ Count(InChunk(0)) = 225
  /\ helper_bucket = Complement(InChunk(0))
  /\ out_hi = Len(output)

(***************************************************************************)
(* C26.  vitemap_decompress terminates on every buffer and every           *)
(* compressed_size: each pass of the loop moves the cursor forward by at   *)
(* least the header byte, so the loop makes at most compressed_size - 4    *)
(* passes, none when compressed_size <= 4, and each pass accounts for      *)
(* exactly 32 bytes of the output.                                         *)
(***************************************************************************)
\* The passes the loop has made.
Passes == dec_off \div BUCKET_SIZE_U8

CompressStep == pc \in {"ready", "compress"} /\ pc' \in {"compress", "compressed"}
\* A step of the size query or of vitemap_decompress.
DecodeStep == pc \in {"compressed", "peeked", "decompress"}
                /\ pc' \in {"peeked", "decompress", "done"}

C27_ReadOnlyOperands ==
  /\ [][/\ CompressStep =>
             /\ input' = input
             /\ vm'.max_size = vm.max_size
             /\ vm'.num_buckets = vm.num_buckets
        /\ DecodeStep =>
             /\ output' = output
             /\ pc # "compressed" =>
                  (compressed_data' = compressed_data
                     /\ data_size' = data_size /\ buffer_size' = buffer_size)]_vars
  /\ [](pc \in {"peeked", "decompress", "done"} =>
          /\ compressed_data = output
          /\ Val32(extract_sizes(compressed_data).data_size) = data_size
          /\ Val32(extract_sizes(compressed_data).buffer_size) = buffer_size)

\* A frame with a dense record, made through the scratch bucket, has been
\* decoded and queried.
C27_Witness ==
  /\ pc = "done"
  /\ vm.num_buckets = 2
  /\ Count(InChunk(1)) = 225
  /\ helper_bucket = Complement(InChunk(1))
  /\ data_size = size
  /\ Len(decompressed) = buffer_size

(***************************************************************************)
(* C28.  The classifier's choice is size-optimal: for every number c of    *)
(* set bits, 0..256, the record stored for a bucket of c bits has the      *)
(* length of its category (1 + c sparse, 1 + (256 - c) dense, 33 raw) and  *)
(* that length is no more than the 1 + c, the 1 + (256 - c) and the 33     *)
(* bytes the three encodings take for the bucket.                          *)
(***************************************************************************)
C28_SizeOptimal ==
  (Compressed /\ vm.num_buckets = 1) =>
    LET c == Count(InChunk(0))
        category == At(output, 4) \div 64
        len == ret - 4
    IN /\ len = (CASE category = 0 -> 1 + c
                   [] category = 1 -> 1 + (BUCKET_SIZE - c)
                   [] OTHER -> 1 + BUCKET_SIZE_U8)
       /\ len <= 1 + c
       /\ len <= 1 + (BUCKET_SIZE - c)
       /\ len <= 1 + BUCKET_SIZE_U8

\* The bucket of 32 bits, where the sparse and the raw record are equally
\* long, has been stored raw.
C28_Witness ==
  /\ pc = "compressed"
  /\ input = FirstBits(BUCKET_SIZE_U8)
  /\ At(output, 4) \div 64 = 2
  /\ ret - 4 = 1 + Count(InChunk(0))

(***************************************************************************)
(* C29.  No 32-bit wrap-around in context sizing: for every argument of    *)
(* vitemap_create that fits uint32_t, the max_compressed_size stored is    *)
(* the number 4 + 64 * num_buckets, so it is at least 4 + 33 * num_buckets *)
(* and the output allocation of max_compressed_size + 32 bytes is no       *)
(* smaller than that.                                                      *)
(***************************************************************************)
\* The number 4 + k * a for a uint32_t a, in 16-bit halves whose upper half
\* is left to grow past 2^16.
Exact(k, a) == [hi |-> a.hi * k + (a.lo * k + 4) \div Half, lo |-> (a.lo * k + 4) % Half]

C29_NoWrapInSizing ==
  pc = "sized" =>
    /\ sizes32.max_compressed_size = Exact(64, sizes32.num_buckets)
    /\ Leq32(Exact(33, sizes32.num_buckets), sizes32.max_compressed_size)
    /\ Leq32(Exact(33, sizes32.num_buckets), sizes32.output_bytes)

(***************************************************************************)
(* C30.  Empty input: vitemap_create(0) gives a context of zero buckets;   *)
(* vitemap_compress(vm, 0) on it returns 4 and stores nothing but the      *)
(* prefix 00 00 00 00; the size query on that frame gives (0, 0); and      *)
(* vitemap_decompress of the frame with compressed_size 4 stores no byte.  *)
(***************************************************************************)
\* The context was created for 0 bytes and compress was called with size 0.
EmptyCall == upper_size = 0 /\ size = 0

C30_EmptyInput ==
  /\ (pc # "none" /\ upper_size = 0) =>
       (vm.num_buckets = 0 /\ vm.max_size = 0 /\ input = <<>>)
  /\ (pc \in {"compressed", "peeked", "decompress", "done"} /\ EmptyCall) =>
       /\ ret = 4
       /\ out_hi = 4
       /\ output = Zeros(Len(output))
       /\ Len(output) >= 4
  /\ (pc \in {"peeked", "decompress", "done"} /\ EmptyCall) =>
       (compressed_size = 4 /\ data_size = 0 /\ buffer_size = 0)
  /\ (pc \in {"decompress", "done"} /\ EmptyCall) =>
       (dec_off = 0 /\ decompressed = <<>> /\ read_hi = 4)

C30_Witness ==
  /\ pc = "done"
  /\ EmptyCall
  /\ vm.num_buckets = 0
  /\ Slice(compressed_data, 0, compressed_size) = <<0, 0, 0, 0>>
  /\ decompressed = <<>>

====
